---- MODULE Spec2Model ----
(***************************************************************************)
(* Model of bresenham.py: line (polar wrapper around the digital-line      *)
(* primitive skimage.draw.line), restrict (clipping of a line's pixel      *)
(* coordinates to an image) and parallel_lines (the family of parallel     *)
(* lines through an image).                                                *)
(*                                                                         *)
(* A Line is a record [ii |-> rows, jj |-> columns] of two sequences, like *)
(* the pair of ndarrays (ii, jj) of the source.  Array indices keep the    *)
(* 0-based values of the source; they are converted where a TLA+ sequence  *)
(* is indexed.                                                             *)
(*                                                                         *)
(* An angle theta is a real number in the source.  Its only effects are    *)
(* the branch of the quadrant test taken at lines 114-124 and the rounded  *)
(* end point (x2, y2) of line(); theta is therefore represented by         *)
(*   neg  : fmod(theta, 2*pi) < 0 (math.fmod keeps the sign of theta),     *)
(*   quad : the quadrant 1..4 of the representative of theta in [0, 2*pi), *)
(*   x2,y2: round(rho*cos(theta)), round(rho*sin(theta)).                  *)
(***************************************************************************)
EXTENDS Integers, Sequences, FiniteSets

\* ---------------------------------------------------------------- bounds
MaxDim == 5
RDim == 2
RPad == 1
MaxLen == 3

\* --------------------------------------------------------------- helpers
Abs(x) == IF x < 0 THEN -x ELSE x

Max2(a, b) == IF a >= b THEN a ELSE b

Min2(a, b) == IF a <= b THEN a ELSE b

SetMax(S) == CHOOSE m \in S : \A k \in S : k <= m

SetMin(S) == CHOOSE m \in S : \A k \in S : m <= k

Last(s) == s[Len(s)]

AddTo(s, t) == [k \in 1..Len(s) |-> s[k] + t]

Reverse(s) == [k \in 1..Len(s) |-> s[Len(s) + 1 - k]]

EmptyLine == [ii |-> << >>, jj |-> << >>]

\* ii.size > 0 and jj.size > 0
NonEmpty(l) == Len(l.ii) > 0 /\ Len(l.jj) > 0

\* ------------------------------------------- skimage.draw.line (Bresenham)
\* The primitive called at line 34 is library code; the three operators
\* below follow its integer Bresenham loop (rows r, columns c, error d).
\* while d >= 0: r = r + sr; d = d - 2 * dc
RECURSIVE Advance(_, _, _, _)
Advance(r, d, sr, dc) ==
    IF d >= 0 THEN Advance(r + sr, d - 2 * dc, sr, dc) ELSE <<r, d>>

\* for i in range(dc): emit (r, c), swapped when steep, then step
RECURSIVE LineLoop(_, _, _, _, _, _, _, _, _, _, _)
LineLoop(i, r, c, d, dr, dc, sr, sc, steep, rr, cc) ==
    IF i >= dc THEN [rr |-> rr, cc |-> cc]
    ELSE LET a == Advance(r, d, sr, dc)
         IN  LineLoop(i + 1, a[1], c + sc, a[2] + 2 * dr, dr, dc, sr, sc, steep,
                      Append(rr, IF steep THEN c ELSE r),
                      Append(cc, IF steep THEN r ELSE c))

skimage_line(r0, c0, r1, c1) ==
    LET dr0 == Abs(r1 - r0)
        dc0 == Abs(c1 - c0)
        sc0 == IF c1 - c0 > 0 THEN 1 ELSE -1
        sr0 == IF r1 - r0 > 0 THEN 1 ELSE -1
        steep == dr0 > dc0
        r == IF steep THEN c0 ELSE r0
        c == IF steep THEN r0 ELSE c0
        dr == IF steep THEN dc0 ELSE dr0
        dc == IF steep THEN dr0 ELSE dc0
        sr == IF steep THEN sc0 ELSE sr0
        sc == IF steep THEN sr0 ELSE sc0
        body == LineLoop(0, r, c, 2 * dr - dc, dr, dc, sr, sc, steep, << >>, << >>)
    IN  [ii |-> Append(body.rr, r1), jj |-> Append(body.cc, c1)]

\* ------------------------------------------------------------------ line
\* (x, y) = (round(rho*cos(theta)), round(rho*sin(theta))) for some theta:
\* the circle of radius rho meets the interior of the unit cell centred on
\* (x, y).  Coordinates are doubled to stay in the integers.  The circle
\* never passes through a cell corner nor touches a cell edge (rho is an
\* integer), so the rounding mode at .5 does not change this set.
Rounded(rho, x, y) ==
    LET lo(v) == IF v = 0 THEN 0 ELSE 2 * Abs(v) - 1
        hi(v) == 2 * Abs(v) + 1
    IN  /\ lo(x) * lo(x) + lo(y) * lo(y) < 4 * rho * rho
        /\ 4 * rho * rho < hi(x) * hi(x) + hi(y) * hi(y)

\* signs of cos and sin in each quadrant of [0, 2*pi)
InQuadrant(q, x, y) ==
    CASE q = 1 -> x >= 0 /\ y >= 0
      [] q = 2 -> x <= 0 /\ y >= 0
      [] q = 3 -> x <= 0 /\ y <= 0
      [] q = 4 -> x >= 0 /\ y <= 0

Thetas(rho) ==
    {t \in [neg : BOOLEAN, quad : 1..4, x2 : -rho..rho, y2 : -rho..rho] :
        Rounded(rho, t.x2, t.y2) /\ InQuadrant(t.quad, t.x2, t.y2)}

line(theta, rho) == skimage_line(0, 0, theta.y2, theta.x2)

\* -------------------------------------------------------------- restrict
\* np.nonzero(mask)[0], as a set of 0-based indices
LeftMaskII(ii, height) ==
    {k \in 0..(Len(ii) - 1) :
        IF ii[1] >= Last(ii) THEN ii[k + 1] >= height ELSE ii[k + 1] < 0}

LeftMaskJJ(jj, width) ==
    {k \in 0..(Len(jj) - 1) :
        IF jj[1] <= Last(jj) THEN jj[k + 1] < 0 ELSE jj[k + 1] >= width}

RightMaskII(ii, height) ==
    {k \in 0..(Len(ii) - 1) :
        IF ii[1] >= Last(ii) THEN ii[k + 1] < 0 ELSE ii[k + 1] >= height}

RightMaskJJ(jj, width) ==
    {k \in 0..(Len(jj) - 1) :
        IF jj[1] <= Last(jj) THEN jj[k + 1] >= width ELSE jj[k + 1] < 0}

\* left = max(left_ii, left_jj), -1 when nothing is trimmed
LeftIndex(ii, jj, height, width) ==
    LET nz_ii == LeftMaskII(ii, height)
        nz_jj == LeftMaskJJ(jj, width)
        left_ii == IF nz_ii # {} THEN SetMax(nz_ii) + 1 ELSE -1
        left_jj == IF nz_jj # {} THEN SetMax(nz_jj) + 1 ELSE -1
    IN  Max2(left_ii, left_jj)

\* if left != -1: ii = ii[left:]; jj = jj[left:]
TrimLeft(l, left) ==
    IF left # -1
    THEN [ii |-> SubSeq(l.ii, left + 1, Len(l.ii)),
          jj |-> SubSeq(l.jj, left + 1, Len(l.jj))]
    ELSE l

\* right = min(right_ii, right_jj), evaluated on the left-trimmed line
RightIndex(ii, jj, height, width) ==
    LET nz_ii == RightMaskII(ii, height)
        nz_jj == RightMaskJJ(jj, width)
        right_ii == IF nz_ii # {} THEN SetMin(nz_ii) ELSE Len(ii)
        right_jj == IF nz_jj # {} THEN SetMin(nz_jj) ELSE Len(jj)
    IN  Min2(right_ii, right_jj)

\* if right < ii.size: ii = ii[:right]; jj = jj[:right]
TrimRight(l, right) ==
    IF right < Len(l.ii)
    THEN [ii |-> SubSeq(l.ii, 1, right), jj |-> SubSeq(l.jj, 1, right)]
    ELSE l

\* The result is [err, line]: err is the IndexError raised by ii[0] (or
\* jj[0]) at lines 62-63 when the input array is empty.
restrict(l, height, width) ==
    IF Len(l.ii) = 0 \/ Len(l.jj) = 0
    THEN [err |-> TRUE, line |-> EmptyLine]
    ELSE LET t == TrimLeft(l, LeftIndex(l.ii, l.jj, height, width))
         IN  IF Len(t.ii) <= 0 \/ Len(t.jj) <= 0
             THEN [err |-> FALSE, line |-> t]
             ELSE [err |-> FALSE,
                   line |-> TrimRight(t, RightIndex(t.ii, t.jj, height, width))]

\* -------------------------------------------------------- parallel_lines
\* rho = 2 * max(height, width)
Rho(height, width) == 2 * Max2(height, width)

\* ii = height - ii (the row origin is off by one)
ReorientOffByOne(l, height) ==
    [ii |-> [k \in 1..Len(l.ii) |-> height - l.ii[k]], jj |-> l.jj]

\* ii = height - ii - 1
Reorient(l, height) ==
    [ii |-> [k \in 1..Len(l.ii) |-> height - l.ii[k] - 1], jj |-> l.jj]

\* The branch of the quadrant test taken for fmod(theta, 2*pi).  fmod keeps
\* the sign of theta: a negative theta fails 0 <= theta, pi/2 < theta and
\* pi <= theta, and falls through to the else branch.
Branch(theta) == IF theta.neg THEN 4 ELSE theta.quad

\* <<tx, ty>> of each branch
Translation(b, height, width) ==
    CASE b = 1 -> <<0, 0>>
      [] b = 2 -> <<0, width - 1>>
      [] b = 3 -> <<1 - height, width - 1>>
      [] b = 4 -> <<1 - height, 0>>

\* lines 108-126: the seed line, reoriented and translated
Seed(theta, height, width) ==
    LET l == Reorient(line(theta, Rho(height, width)), height)
        t == Translation(Branch(theta), height, width)
    IN  [ii |-> AddTo(l.ii, t[1]), jj |-> AddTo(l.jj, t[2])]

\* abs(ii[-1] - ii[0]) > abs(jj[-1] - jj[0]) (the comparison is inverted)
ShiftRowsInverted(l) == Abs(Last(l.ii) - l.ii[1]) > Abs(Last(l.jj) - l.jj[1])

\* abs(ii[-1] - ii[0]) <= abs(jj[-1] - jj[0])
ShiftRows(l) == Abs(Last(l.ii) - l.ii[1]) <= Abs(Last(l.jj) - l.jj[1])

\* both loops shift by +shift (the downward loop repeats the upward one)
ShiftedSameWay(l, s, height, width) ==
    IF ShiftRows(l)
    THEN restrict([ii |-> AddTo(l.ii, Abs(s)), jj |-> l.jj], height, width)
    ELSE restrict([ii |-> l.ii, jj |-> AddTo(l.jj, Abs(s))], height, width)

\* restrict(ii + s, jj, ...) or restrict(ii, jj + s, ...), s = -shift or +shift
Shifted(l, s, height, width) ==
    IF ShiftRows(l)
    THEN restrict([ii |-> AddTo(l.ii, s), jj |-> l.jj], height, width)
    ELSE restrict([ii |-> l.ii, jj |-> AddTo(l.jj, s)], height, width)

VARIABLES pc, theta, height, width, seed, lines, u, d, shift, failed,
          rline, out1, out2

vars == <<pc, theta, height, width, seed, lines, u, d, shift, failed,
          rline, out1, out2>>

NoResult == [err |-> FALSE, line |-> EmptyLine]

rvars == <<rline, out1, out2>>

\* ------------------------------------------- specification: parallel_lines
Init ==
    /\ height \in 1..MaxDim
    /\ width \in 1..MaxDim
    /\ theta \in Thetas(Rho(height, width))
    /\ pc = "start"
    /\ seed = EmptyLine
    /\ lines = << >>
    /\ u = EmptyLine
    /\ d = EmptyLine
    /\ shift = 0
    /\ failed = FALSE
    /\ rline = EmptyLine
    /\ out1 = NoResult
    /\ out2 = NoResult

\* lines 105-134: seed line, its clip appended, shift = 1
DrawSeed ==
    /\ pc = "start"
    /\ LET s == Seed(theta, height, width)
           r == restrict(s, height, width)
       IN  /\ seed' = s
           /\ failed' = r.err
           /\ u' = r.line
           /\ d' = r.line
           /\ lines' = IF r.err THEN << >> ELSE <<r.line>>
           /\ pc' = IF r.err THEN "raised" ELSE "down"
    /\ shift' = 1
    /\ UNCHANGED <<theta, height, width, rvars>>

\* lines 135-142: one iteration of the downward loop
ShiftDown ==
    /\ pc = "down"
    /\ NonEmpty(u)
    /\ LET r == Shifted(seed, -shift, height, width)
       IN  /\ failed' = r.err
           /\ u' = r.line
           /\ lines' = IF ~r.err /\ NonEmpty(r.line) THEN Append(lines, r.line) ELSE lines
           /\ pc' = IF r.err THEN "raised" ELSE "down"
    /\ shift' = shift + 1
    /\ UNCHANGED <<theta, height, width, seed, d, rvars>>

\* lines 144-147: the downward loop is left, lines.reverse(), shift = 1
ReverseLines ==
    /\ pc = "down"
    /\ ~NonEmpty(u)
    /\ lines' = Reverse(lines)
    /\ shift' = 1
    /\ pc' = "up"
    /\ UNCHANGED <<theta, height, width, seed, u, d, failed, rvars>>

\* lines 148-155: one iteration of the upward loop
ShiftUp ==
    /\ pc = "up"
    /\ NonEmpty(d)
    /\ LET r == Shifted(seed, shift, height, width)
       IN  /\ failed' = r.err
           /\ d' = r.line
           /\ lines' = IF ~r.err /\ NonEmpty(r.line) THEN Append(lines, r.line) ELSE lines
           /\ pc' = IF r.err THEN "raised" ELSE "up"
    /\ shift' = shift + 1
    /\ UNCHANGED <<theta, height, width, seed, u, rvars>>

\* line 157: return lines
Return ==
    /\ pc = "up"
    /\ ~NonEmpty(d)
    /\ pc' = "done"
    /\ UNCHANGED <<theta, height, width, seed, lines, u, d, shift, failed, rvars>>

Next == DrawSeed \/ ShiftDown \/ ReverseLines \/ ShiftUp \/ Return

Spec == Init /\ [][Next]_vars

\* --------------------------------------------------- specification: restrict
\* restrict applied to a line, then to its own result
Monotonic(s) ==
    \/ \A k \in 1..(Len(s) - 1) : s[k] <= s[k + 1]
    \/ \A k \in 1..(Len(s) - 1) : s[k] >= s[k + 1]

MonotonicSeqs(n) == {s \in [1..n -> (0 - RPad)..(RDim + RPad)] : Monotonic(s)}

NoTheta == [neg |-> FALSE, quad |-> 1, x2 |-> 0, y2 |-> 0]

InitR ==
    /\ height \in 1..RDim
    /\ width \in 1..RDim
    /\ \E n \in 1..MaxLen : rline \in [ii : MonotonicSeqs(n), jj : MonotonicSeqs(n)]
    /\ pc = "r_start"
    /\ out1 = NoResult
    /\ out2 = NoResult
    /\ theta = NoTheta
    /\ seed = EmptyLine
    /\ lines = << >>
    /\ u = EmptyLine
    /\ d = EmptyLine
    /\ shift = 0
    /\ failed = FALSE

pvars == <<theta, height, width, seed, lines, u, d, shift, failed>>

\* restrict(line, height, width)
RestrictOnce ==
    /\ pc = "r_start"
    /\ out1' = restrict(rline, height, width)
    /\ pc' = "r_once"
    /\ UNCHANGED <<pvars, rline, out2>>

\* restrict(restrict(line, height, width), height, width)
RestrictTwice ==
    /\ pc = "r_once"
    /\ ~out1.err
    /\ out2' = restrict(out1.line, height, width)
    /\ pc' = "r_twice"
    /\ UNCHANGED <<pvars, rline, out1>>

NextR == RestrictOnce \/ RestrictTwice

SpecR == InitR /\ [][NextR]_vars

\* -------------------------------------------------------------- properties
\* 0 <= row < height and 0 <= column < width for every coordinate of l
InBounds(l, h, w) ==
    /\ \A k \in 1..Len(l.ii) : 0 <= l.ii[k] /\ l.ii[k] < h
    /\ \A k \in 1..Len(l.jj) : 0 <= l.jj[k] /\ l.jj[k] < w

\* the pixels of a line, as a set of <<row, column>>
Pixels(l) == {<<l.ii[k], l.jj[k]>> : k \in 1..Len(l.ii)}

\* C1: every Line of the family returned by parallel_lines is non-empty and
\* has all its coordinates inside the rectangle.
C1_FamilyInBounds ==
    pc = "done" =>
        \A k \in 1..Len(lines) : NonEmpty(lines[k]) /\ InBounds(lines[k], height, width)

\* C2: every coordinate of the result of restrict on a non-empty per-axis
\* monotonic line lies inside the rectangle.
C2_RestrictInBounds ==
    pc = "r_once" => ~out1.err /\ InBounds(out1.line, height, width)

\* C3: for height = 1 and width = 1 the family is exactly one Line, the
\* single point (0, 0), whatever the angle.
C3_UnitImage ==
    (pc = "done" /\ height = 1 /\ width = 1) =>
        lines = <<[ii |-> <<0>>, jj |-> <<0>>]>>

\* C4: restrict is idempotent: applied to its own result (the empty Line
\* included) it raises no error and returns that result.
C4_RestrictIdempotent ==
    pc = "r_twice" => ~out2.err /\ out2.line = out1.line

\* C5: every pixel of the rectangle belongs to at least one Line of the
\* family, for every angle (negative angles included).
C5_FamilyCovers ==
    pc = "done" =>
        \A r \in 0..(height - 1), c \in 0..(width - 1) :
            \E k \in 1..Len(lines) : <<r, c>> \in Pixels(lines[k])

\* the corner of the rectangle for an angle whose representative in
\* [0, 2*pi) lies in quadrant q: bottom-left, bottom-right, top-right,
\* top-left (row 0 is the top row)
Corner(q, h, w) ==
    CASE q = 1 -> <<h - 1, 0>>
      [] q = 2 -> <<h - 1, w - 1>>
      [] q = 3 -> <<0, w - 1>>
      [] q = 4 -> <<0, 0>>

\* C6: the seed line is anchored at the corner of the quadrant of theta
\* modulo 2*pi, so a negative theta is anchored like theta + 2*pi.
C6_AnchoredModTwoPi ==
    pc \in {"down", "up", "done"} =>
        <<seed.ii[1], seed.jj[1]>> = Corner(theta.quad, height, width)

\* theta = 0: non-negative, first quadrant, end point (rho, 0)
ThetaZero ==
    /\ ~theta.neg
    /\ theta.quad = 1
    /\ theta.x2 = Rho(height, width)
    /\ theta.y2 = 0

\* C7: for theta = 0 the family is exactly `height` Lines, the k-th being
\* row k-1 with the columns 0 .. width-1 in order.
C7_HorizontalFamily ==
    (pc = "done" /\ ThetaZero) =>
        /\ Len(lines) = height
        /\ \A k \in 1..Len(lines) :
            /\ lines[k].ii = [m \in 1..width |-> k - 1]
            /\ lines[k].jj = [m \in 1..width |-> m - 1]

C7_Witness ==
    pc = "done" /\ ThetaZero /\ height = 5 /\ width = 5 /\ Len(lines) = 5

\* C8: the result of restrict is a slice input[left:right] of the input that
\* contains every in-bounds element of the input, and is empty when the
\* input has no in-bounds element.
C8_MaximalSlice ==
    pc = "r_once" =>
        /\ ~out1.err
        /\ \E a \in 0..Len(rline.ii), b \in 0..Len(rline.ii) :
            /\ out1.line = [ii |-> SubSeq(rline.ii, a + 1, b),
                            jj |-> SubSeq(rline.jj, a + 1, b)]
            /\ \A k \in 1..Len(rline.ii) :
                (/\ 0 <= rline.ii[k] /\ rline.ii[k] < height
                 /\ 0 <= rline.jj[k] /\ rline.jj[k] < width) => (a < k /\ k <= b)
        /\ (\A k \in 1..Len(rline.ii) :
                ~(/\ 0 <= rline.ii[k] /\ rline.ii[k] < height
                  /\ 0 <= rline.jj[k] /\ rline.jj[k] < width))
            => ~NonEmpty(out1.line)

\* C9: both sweep loops terminate (no call of restrict raises and the loop
\* counter never exceeds height + width + 1), each at the first shift whose
\* clipped candidate is empty (the family is the run of all candidates
\* between the first empty one downward and the first empty one upward),
\* and the family has at most height + width Lines.
C9_SweepsTerminate ==
    /\ pc # "raised"
    /\ shift <= height + width + 1
    /\ Len(lines) <= height + width
    /\ pc = "down" => Len(lines) = (IF NonEmpty(u) THEN shift ELSE shift - 1)
    /\ pc = "done" =>
        \E nd \in 0..(Len(lines) - 1) :
            /\ \A k \in 1..Len(lines) :
                lines[k] = Shifted(seed, k - nd - 1, height, width).line
            /\ ~NonEmpty(Shifted(seed, -(nd + 1), height, width).line)
            /\ ~NonEmpty(Shifted(seed, Len(lines) - nd, height, width).line)

C9_Witness ==
    pc = "done" /\ Len(lines) = height + width

\* C10: no two Lines of the returned family share a pixel.
C10_PairwiseDisjoint ==
    pc = "done" =>
        \A k, m \in 1..Len(lines) :
            k # m => Pixels(lines[k]) \cap Pixels(lines[m]) = {}

C10_Witness ==
    /\ pc = "done"
    /\ ~ShiftRows(seed)
    /\ Len(lines) >= 3
    /\ \E k \in 1..Len(lines) : Len(lines[k].ii) >= 2

====
